---------------------------- MODULE Spec2Model ----------------------------
(***************************************************************************)
(* Model of src/app.py: the Flask front-end of the AI Interview Simulator. *)
(*                                                                         *)
(* State: the global Progress Record current_progress, the fields of the   *)
(* one global WebInterviewSimulator instance (llm, agents, tasks), the     *)
(* position of every request handler thread and of every worker thread     *)
(* started by start_simulation, and the report files written.              *)
(*                                                                         *)
(* Flask's development server handles requests in threads, and every       *)
(* worker is a threading.Thread: each access to the shared globals is one  *)
(* step.  A dict.update / a rebinding of the global is one atomic step     *)
(* (CPython executes it under the interpreter lock), and so is the         *)
(* jsonify(current_progress) of get_progress.  simulator.result (line 202) *)
(* and simulation_thread (line 266) are written and never read: they are   *)
(* not part of the state.  An exception of a library call or of a payload  *)
(* lookup inside run_simulation is a nondeterministic choice at the        *)
(* statement that can raise it.                                            *)
(***************************************************************************)
EXTENDS Integers, Sequences, FiniteSets, TLC

\* Number of POST /api/start_simulation requests the model receives.
MaxSubmits == 2

Reqs == 1..MaxSubmits

\* ---------------------------------------------------------------- values

\* Python's None.
None == [none |-> TRUE]

\* api_key values of a payload: absent (None), the empty string, a key.
ApiKeys == {"absent", "", "k"}

\* Whether the payload carries interview_data.
Bodies == {"none", "full"}

\* format values of GET /api/download/<format>.
Formats == {"markdown", "pdf", "json", "xml"}

\* A check that only refuses a missing key.
FalsyAbsentOnly(k) == k = "absent"

\* `not api_key` (line 256).
Falsy(k) == k \in {"absent", ""}

\* current_progress as first bound (line 25).
IdleRecord == [status |-> "idle", step |-> "", progress |-> 0, result |-> None]

\* A reset that starts the progress at 0.
ResetRecordAtZero ==
  [status |-> "running", step |-> "Initializing...", progress |-> 0, result |-> None]

\* The record start_simulation rebinds current_progress to (line 263).
ResetRecord ==
  [status |-> "running", step |-> "Initializing...", progress |-> 10, result |-> None]

\* current_progress.update({"step": s, "progress": p}).
Checkpoint(cp, s, p) == [cp EXCEPT !.step = s, !.progress = p]

\* current_progress.update of the success path (lines 203-208).
CompleteUpdate(cp, res) ==
  [cp EXCEPT !.status = "completed", !.step = "Assessment Complete!",
             !.progress = 100, !.result = res]

\* An except clause that leaves the previous result in place.
ErrorUpdateKeepsResult(cp) ==
  [cp EXCEPT !.status = "error", !.step = "Error", !.progress = 0]

\* current_progress.update of the except clause (lines 213-218).
ErrorUpdate(cp) ==
  [cp EXCEPT !.status = "error", !.step = "Error", !.progress = 0, !.result = None]

\* simulator.agents = {} and simulator.tasks = [] after __init__ (0: no entry).
NoAgents == [hr |-> 0, tech |-> 0, feedback |-> 0]
NoTasks == [req |-> 0, hr |-> 0, tech |-> 0, feedback |-> 0]

\* A worker thread that has not been started.
NoWorker == [pc |-> "none", hr |-> 0, tech |-> 0, crew |-> None, out |-> None]

VARIABLES
  current_progress, \* the global Progress Record
  llm,              \* simulator.llm / os.environ key: the request that set it
  agents,           \* simulator.agents: for each role, the request it was built for
  tasks,            \* simulator.tasks: the request and the agents of the task list
  req,              \* start_simulation handlers: payload, position, HTTP status
  wk,               \* worker threads running run_simulation, one per request
  dl,               \* the download_report handler: position, format, locals
  reports,          \* files written under reports/
  obs               \* the last step, when it answered a client or reset the record

vars == <<current_progress, llm, agents, tasks, req, wk, dl, reports, obs>>

NoObs == [kind |-> "none"]
IdleDl == [pc |-> "idle", fmt |-> "", result |-> None]
NoReq == [pc |-> "none", api_key |-> "absent", body |-> "none", code |-> 0]

Init ==
  /\ current_progress = IdleRecord
  /\ llm = 0
  /\ agents = NoAgents
  /\ tasks = NoTasks
  /\ req = [r \in Reqs |-> NoReq]
  /\ wk = [r \in Reqs |-> NoWorker]
  /\ dl = IdleDl
  /\ reports = {}
  /\ obs = NoObs


\* ------------------------------------------- POST /api/start_simulation

\* The next request id: requests are numbered in the order they arrive.
IsNext(r) == req[r].pc = "none" /\ (IF r = 1 THEN TRUE ELSE req[r - 1].pc # "none")

Response(r, c) == [kind |-> "submit", req |-> r, code |-> c]

\* Lines 252-257: the payload has no api_key, or an empty one.
SubmitReject(r) ==
  \E k \in ApiKeys, b \in Bodies :
    /\ IsNext(r)
    /\ Falsy(k)
    /\ req' = [req EXCEPT ![r] = [pc |-> "done", api_key |-> k, body |-> b, code |-> 400]]
    /\ obs' = Response(r, 400)
    /\ UNCHANGED <<current_progress, llm, agents, tasks, wk, dl, reports>>

\* Lines 252-259 and setup_llm (37-45): the key is exported and the llm rebuilt.
SubmitSetup(r) ==
  \E k \in ApiKeys, b \in Bodies :
    /\ IsNext(r)
    /\ ~Falsy(k)
    /\ llm' = r
    /\ req' = [req EXCEPT ![r] = [pc |-> "L263", api_key |-> k, body |-> b, code |-> 0]]
    /\ obs' = NoObs
    /\ UNCHANGED <<current_progress, agents, tasks, wk, dl, reports>>

\* Line 263: current_progress is rebound to a fresh record.
SubmitReset(r) ==
  /\ req[r].pc = "L263"
  /\ current_progress' = ResetRecord
  /\ req' = [req EXCEPT ![r].pc = "L266"]
  /\ obs' = [kind |-> "reset", req |-> r]
  /\ UNCHANGED <<llm, agents, tasks, wk, dl, reports>>

\* Lines 266-270: data['interview_data'] is read and the thread is started.
SubmitStart(r) ==
  /\ req[r].pc = "L266"
  /\ req[r].body # "none"
  /\ wk' = [wk EXCEPT ![r].pc = "L168"]
  /\ req' = [req EXCEPT ![r].pc = "L272"]
  /\ obs' = NoObs
  /\ UNCHANGED <<current_progress, llm, agents, tasks, dl, reports>>

\* Lines 268, 274-275: data['interview_data'] raises KeyError; no thread.
SubmitKeyError(r) ==
  /\ req[r].pc = "L266"
  /\ req[r].body = "none"
  /\ req' = [req EXCEPT ![r].pc = "done", ![r].code = 500]
  /\ obs' = Response(r, 500)
  /\ UNCHANGED <<current_progress, llm, agents, tasks, wk, dl, reports>>

\* Line 272: the handler returns 200.
SubmitReturn(r) ==
  /\ req[r].pc = "L272"
  /\ req' = [req EXCEPT ![r].pc = "done", ![r].code = 200]
  /\ obs' = Response(r, 200)
  /\ UNCHANGED <<current_progress, llm, agents, tasks, wk, dl, reports>>

\* ------------------------------------------------------ GET /api/progress

\* Lines 277-280: the record is returned verbatim.  `after` remembers the
\* step the query follows: a start_simulation handler returning 200
\* ("submit"), the reset of line 263 ("reset"), or anything else.
Query ==
  /\ obs' = [kind |-> "query", body |-> current_progress,
             after |-> IF obs.kind = "submit" THEN (IF obs.code = 200 THEN "submit" ELSE "other")
                       ELSE IF obs.kind = "reset" THEN "reset" ELSE "other"]
  /\ UNCHANGED <<current_progress, llm, agents, tasks, req, wk, dl, reports>>

\* ------------------------------------- WebInterviewSimulator.run_simulation

\* The current_progress.update calls that only set step and progress:
\* position -> <<step, progress, next position>>.
CheckpointAt(pc) ==
  CASE pc = "L168" -> <<"Starting Interview Simulation...", 60, "L50">>
    [] pc = "L50"  -> <<"Creating AI Agents...", 20, "hr">>
    [] pc = "L95"  -> <<"Agents Created Successfully", 30, "L100">>
    [] pc = "L100" -> <<"Creating Interview Tasks...", 40, "hr_task">>
    [] pc = "L161" -> <<"Tasks Created Successfully", 50, "L175">>
    [] pc = "L175" -> <<"Assembling Interview Crew...", 70, "crew">>
    [] pc = "L186" -> <<"Running Multi-Agent Assessment...", 80, "kickoff">>
    [] pc = "L191" -> <<"Generating Report...", 90, "L194">>

CheckpointPcs == {"L168", "L50", "L95", "L100", "L161", "L175", "L186", "L191"}

\* Positions whose statement indexes the payload or calls the crew library.
RaisePcs == {"L50", "hr", "tech", "feedback", "hr_task", "tech_task",
             "final_task", "crew", "kickoff", "L194"}

Finished == [NoWorker EXCEPT !.pc = "done"]

WorkerCheckpoint(w) ==
  /\ wk[w].pc \in CheckpointPcs
  /\ LET c == CheckpointAt(wk[w].pc) IN
       /\ current_progress' = Checkpoint(current_progress, c[1], c[2])
       /\ wk' = [wk EXCEPT ![w].pc = c[3]]
  /\ obs' = NoObs
  /\ UNCHANGED <<llm, agents, tasks, req, dl, reports>>

\* create_agents, lines 53-93: self.agents[role] = Agent(...).
NextRole(role) ==
  CASE role = "hr" -> "tech" [] role = "tech" -> "feedback" [] role = "feedback" -> "L95"

WorkerAgent(w) ==
  /\ wk[w].pc \in {"hr", "tech", "feedback"}
  /\ agents' = [agents EXCEPT ![wk[w].pc] = w]
  /\ wk' = [wk EXCEPT ![w].pc = NextRole(wk[w].pc)]
  /\ obs' = NoObs
  /\ UNCHANGED <<current_progress, llm, tasks, req, dl, reports>>

\* create_tasks, lines 106-119 and 122-137: hr_task and tech_task take
\* self.agents['hr'] and self.agents['tech'].
WorkerHrTask(w) ==
  /\ wk[w].pc = "hr_task"
  /\ wk' = [wk EXCEPT ![w].hr = agents.hr, ![w].pc = "tech_task"]
  /\ obs' = NoObs
  /\ UNCHANGED <<current_progress, llm, agents, tasks, req, dl, reports>>

WorkerTechTask(w) ==
  /\ wk[w].pc = "tech_task"
  /\ wk' = [wk EXCEPT ![w].tech = agents.tech, ![w].pc = "final_task"]
  /\ obs' = NoObs
  /\ UNCHANGED <<current_progress, llm, agents, tasks, req, dl, reports>>

\* The task list a worker builds from its own interview_data.
TaskList(w, hr, tech, feedback) ==
  [req |-> w, hr |-> hr, tech |-> tech, feedback |-> feedback]

\* Lines 140-160: final_task takes self.agents['feedback'] and self.tasks is
\* rebound to [hr_task, tech_task, final_task].
WorkerFinalTask(w) ==
  /\ wk[w].pc = "final_task"
  /\ tasks' = TaskList(w, wk[w].hr, wk[w].tech, agents.feedback)
  /\ wk' = [wk EXCEPT ![w].hr = 0, ![w].tech = 0, ![w].pc = "L161"]
  /\ obs' = NoObs
  /\ UNCHANGED <<current_progress, llm, agents, req, dl, reports>>

\* Lines 177-183: Crew(agents=list(self.agents.values()), tasks=self.tasks).
NewCrew(w, a, t) == [agents |-> a, tasks |-> t]

WorkerCrew(w) ==
  /\ wk[w].pc = "crew"
  /\ wk' = [wk EXCEPT ![w].crew = NewCrew(w, agents, tasks), ![w].pc = "L186"]
  /\ obs' = NoObs
  /\ UNCHANGED <<current_progress, llm, agents, tasks, req, dl, reports>>

\* Line 188: crew.kickoff() returns the assessment of the crew's tasks.
WorkerKickoff(w) ==
  /\ wk[w].pc = "kickoff"
  /\ wk' = [wk EXCEPT ![w].out = wk[w].crew.tasks, ![w].crew = None, ![w].pc = "L191"]
  /\ obs' = NoObs
  /\ UNCHANGED <<current_progress, llm, agents, tasks, req, dl, reports>>

\* Lines 194-200: the assessment text with the worker's own candidate_info,
\* job_details and filename.
FinalResult(w, out) == [req |-> w, assessment |-> out]

\* Lines 194-210: final_result is built and published.
WorkerComplete(w) ==
  /\ wk[w].pc = "L194"
  /\ current_progress' = CompleteUpdate(current_progress, FinalResult(w, wk[w].out))
  /\ wk' = [wk EXCEPT ![w] = Finished]
  /\ obs' = NoObs
  /\ UNCHANGED <<llm, agents, tasks, req, dl, reports>>

\* Lines 212-219: any exception of the try block ends the run in error.
WorkerRaise(w) ==
  /\ wk[w].pc \in RaisePcs
  /\ current_progress' = ErrorUpdate(current_progress)
  /\ wk' = [wk EXCEPT ![w] = Finished]
  /\ obs' = NoObs
  /\ UNCHANGED <<llm, agents, tasks, req, dl, reports>>

\* ---------------------------------------------- GET /api/download/<format>

Download(f, c, file) == [kind |-> "download", fmt |-> f, code |-> c, file |-> file]

\* A check that only refuses the idle record.
NotCompletedOnlyIdle(cp) == cp.status = "idle"

\* Line 287, first operand.
NotCompleted(cp) == cp.status # "completed"

\* Line 287, first operand: current_progress["status"] != "completed".
ExportStatus(f) ==
  /\ dl.pc = "idle"
  /\ IF NotCompleted(current_progress)
       THEN /\ obs' = Download(f, 404, None)
            /\ dl' = IdleDl
       ELSE /\ obs' = NoObs
            /\ dl' = [dl EXCEPT !.pc = "L287", !.fmt = f]
  /\ UNCHANGED <<current_progress, llm, agents, tasks, req, wk, reports>>

\* Line 287, second operand: not current_progress["result"].
ExportResult ==
  /\ dl.pc = "L287"
  /\ IF current_progress.result = None
       THEN /\ obs' = Download(dl.fmt, 404, None)
            /\ dl' = IdleDl
       ELSE /\ obs' = NoObs
            /\ dl' = [dl EXCEPT !.pc = "L290"]
  /\ UNCHANGED <<current_progress, llm, agents, tasks, req, wk, reports>>

\* Lines 290-291: result = current_progress["result"]; result['filename']
\* raises TypeError, outside the try block, when the record was reset.
ExportRead ==
  /\ dl.pc = "L290"
  /\ IF current_progress.result = None
       THEN /\ obs' = Download(dl.fmt, 500, None)
            /\ dl' = IdleDl
       ELSE /\ obs' = NoObs
            /\ dl' = [dl EXCEPT !.pc = "L294", !.result = current_progress.result]
  /\ UNCHANGED <<current_progress, llm, agents, tasks, req, wk, reports>>

\* A dispatch whose else branch falls back to markdown.
ExtensionFallback(f) == IF f = "json" THEN "json" ELSE "md"

\* The extension download_markdown (331), download_pdf (343) and
\* download_json (348) write; "" for a format line 301 refuses.
Extension(f) ==
  CASE f = "markdown" -> "md" [] f = "pdf" -> "md" [] f = "json" -> "json"
    [] OTHER -> ""

ReportFile(res, f) == [name |-> res.req, ext |-> Extension(f), content |-> res]

\* Lines 294-301: the file is written and sent, or the format is refused.
ExportDispatch ==
  /\ dl.pc = "L294"
  /\ IF Extension(dl.fmt) # ""
       THEN /\ reports' = reports \cup {ReportFile(dl.result, dl.fmt)}
            /\ obs' = Download(dl.fmt, 200, ReportFile(dl.result, dl.fmt))
       ELSE /\ reports' = reports
            /\ obs' = Download(dl.fmt, 400, None)
  /\ dl' = IdleDl
  /\ UNCHANGED <<current_progress, llm, agents, tasks, req, wk>>

\* Lines 302-303: rendering or writing raises (a job_details key the
\* template needs is missing, the file cannot be opened).
ExportRaise ==
  /\ dl.pc = "L294"
  /\ Extension(dl.fmt) # ""
  /\ obs' = Download(dl.fmt, 500, None)
  /\ dl' = IdleDl
  /\ UNCHANGED <<current_progress, llm, agents, tasks, req, wk, reports>>

\* ------------------------------------------------------- specification

Next ==
  \/ \E r \in Reqs : SubmitReject(r)
  \/ \E r \in Reqs : SubmitSetup(r)
  \/ \E r \in Reqs : SubmitReset(r)
  \/ \E r \in Reqs : SubmitStart(r)
  \/ \E r \in Reqs : SubmitKeyError(r)
  \/ \E r \in Reqs : SubmitReturn(r)
  \/ Query
  \/ \E w \in Reqs : WorkerCheckpoint(w)
  \/ \E w \in Reqs : WorkerAgent(w)
  \/ \E w \in Reqs : WorkerHrTask(w)
  \/ \E w \in Reqs : WorkerTechTask(w)
  \/ \E w \in Reqs : WorkerFinalTask(w)
  \/ \E w \in Reqs : WorkerCrew(w)
  \/ \E w \in Reqs : WorkerKickoff(w)
  \/ \E w \in Reqs : WorkerComplete(w)
  \/ \E w \in Reqs : WorkerRaise(w)
  \/ \E f \in Formats : ExportStatus(f)
  \/ ExportResult
  \/ ExportRead
  \/ ExportDispatch
  \/ ExportRaise

Spec == Init /\ [][Next]_vars

\* ---------------------------------------------------------------- claims

Terminal == {"completed", "error"}

\* Worker threads that were started and have not returned.
Active == {w \in Reqs : wk[w].pc \notin {"none", "done"}}

\* start_simulation handlers that have not returned.
InFlight == {r \in Reqs : req[r].pc \notin {"none", "done"}}

\* C1: in every reachable state the record's result is non-null if and only
\* if its status is completed, overlapping submissions included.
C1_ResultIffCompleted ==
  (current_progress.result # None) <=> (current_progress.status = "completed")

\* C1 witness: a completed record holding a result while another worker,
\* started by an overlapping submission, is still running.
C1_Witness ==
  /\ current_progress.status = "completed"
  /\ current_progress.result # None
  /\ Active # {}

\* C2: whenever the status is completed, the progress is 100 and the result
\* is non-null, in the record and in what a query returns.
C2_Claim ==
  /\ current_progress.status = "completed" =>
       current_progress.progress = 100 /\ current_progress.result # None
  /\ (obs.kind = "query" /\ obs.body.status = "completed") =>
       obs.body.progress = 100 /\ obs.body.result # None

\* C3: the status changes only along idle -> running -> {completed, error};
\* a terminal status changes only through the reset of an accepted submit,
\* never through a worker step, and the status never returns to idle.
C3_Claim ==
  [][ LET old == current_progress.status
          new == current_progress'.status
      IN  old # new =>
            \/ old = "idle" /\ new = "running"
            \/ old = "running" /\ new \in Terminal /\ wk' # wk
            \/ old \in Terminal /\ new = "running" /\ wk' = wk /\ req' # req
    ]_vars

\* C4 (as stated): a query issued right after an accepted submit has
\* returned reports status running and progress 10.
C4_Claim ==
  (obs.kind = "query" /\ obs.after = "submit") =>
    obs.body.status = "running" /\ obs.body.progress = 10

\* C4 (amended): the reset of an accepted submit sets the record to
\* {running, "Initializing...", 10, null} before the submission's worker is
\* started, and a query served right after that reset, before any worker
\* step, reports exactly that record.
C4_ResetThenQuery ==
  /\ [][ \A r \in Reqs :
           (req[r].pc = "L263" /\ req'[r].pc # "L263") =>
             /\ current_progress'.status = "running"
             /\ current_progress'.step = "Initializing..."
             /\ current_progress'.progress = 10
             /\ current_progress'.result = None
             /\ wk[r].pc = "none" /\ wk'[r].pc = "none"
       ]_vars
  /\ [] ((obs.kind = "query" /\ obs.after = "reset") =>
           /\ obs.body.status = "running" /\ obs.body.progress = 10
           /\ obs.body.step = "Initializing..." /\ obs.body.result = None)

\* C4 witness: a query answered right after the reset of line 263, when an
\* earlier accepted submission had already returned.
C4_Witness ==
  /\ obs.kind = "query" /\ obs.after = "reset"
  /\ \E r \in Reqs : req[r].pc = "done" /\ req[r].code = 200

\* C5: a submit without api_key, or with an empty one, answers 400, starts
\* no worker thread and leaves the record and the simulator as they were.
C5_RejectLeavesState ==
  /\ [][ \A r \in Reqs :
           (req[r].pc = "none" /\ req'[r].pc # "none"
              /\ req'[r].api_key \in {"absent", ""}) =>
             /\ req'[r].pc = "done" /\ req'[r].code = 400
             /\ obs' = [kind |-> "submit", req |-> r, code |-> 400]
             /\ UNCHANGED <<current_progress, llm, agents, tasks, wk, reports>>
       ]_vars
  /\ [] (\A r \in Reqs :
           (req[r].pc # "none" /\ req[r].api_key \in {"absent", ""}) =>
             wk[r].pc = "none" /\ req[r].code = 400)

\* C5 witness: an empty key was refused while the record held a completed run.
C5_Witness ==
  /\ obs.kind = "submit" /\ obs.code = 400
  /\ req[obs.req].api_key = ""
  /\ current_progress.status = "completed"

C7_Claim ==
  (obs.kind = "download" /\ obs.fmt \notin {"markdown", "pdf", "json"}) =>
    obs.code = 400

\* C7 (amended): an export with a format outside {markdown, pdf, json} never
\* writes or returns a file; it answers 404 when its check finds status #
\* completed, and 400 once it has passed the check and read the result.
C7_UnknownFormat ==
  [][ LET unknown(f) == f \notin {"markdown", "pdf", "json"} IN
      /\ (obs'.kind = "download" /\ unknown(obs'.fmt)) =>
           /\ obs'.file = None /\ reports' = reports
           /\ obs'.code \in {400, 404, 500}
           /\ (dl.pc = "idle" /\ current_progress.status # "completed") => obs'.code = 404
           /\ dl.pc = "L294" => obs'.code = 400
           /\ obs'.code = 400 => dl.pc = "L294"
      /\ (dl.pc # "idle" /\ unknown(dl.fmt)) => reports' = reports
    ]_vars

\* C7 witness: "xml" was refused with 400 for a completed run.
C7_Witness ==
  /\ obs.kind = "download" /\ obs.fmt = "xml" /\ obs.code = 400
  /\ current_progress.status = "completed"

\* C8: the record never stays at status running with no worker left to
\* advance it: while the status is running, a worker thread is running or a
\* handler is about to start one.
C8_Claim ==
  current_progress.status = "running" =>
    Active # {} \/ (\E r \in Reqs : req[r].pc = "L266")

\* C9: in a run that no other submission overlaps, no worker step lowers the
\* progress between the submit and the completion.
C9_Claim ==
  [][ ( /\ Cardinality(Active) = 1
        /\ InFlight = {}
        /\ \A r \in Reqs : req'[r].pc = req[r].pc
        /\ wk' # wk
        /\ current_progress.status = "running"
        /\ current_progress'.status \in {"running", "completed"} ) =>
      current_progress'.progress >= current_progress.progress
    ]_vars

\* C10: the tasks and agents a worker hands to its crew are the ones built
\* from its own interview_data, and the assessment of a stored result was
\* produced for the request whose candidate_info and job_details it carries.
C10_Claim ==
  /\ \A w \in Reqs :
       wk[w].crew # None =>
         /\ wk[w].crew.tasks = [req |-> w, hr |-> w, tech |-> w, feedback |-> w]
         /\ wk[w].crew.agents = [hr |-> w, tech |-> w, feedback |-> w]
  /\ current_progress.result # None =>
       current_progress.result.assessment.req = current_progress.result.req

=============================================================================
